---- MODULE Spec2Model ----
(***************************************************************************)
(* The CII optimization service of server/optimizer.py: the rating model,  *)
(* the bounded search of MaritimeOptimizer.optimize_cii and the            *)
(* recommendations built from its result.                                  *)
(*                                                                         *)
(* Numbers.  The program computes in floating point; the model computes in *)
(* exact rational arithmetic.  A rational is a pair <<n, d>> in lowest     *)
(* terms with d > 0; float('inf') is <<1, 0>>.                             *)
(*                                                                         *)
(* Units.  Fuel and distance arguments are integers counting thousandths   *)
(* (0.001 t, 0.001 nm), capacity arguments count thousands of tonnes and   *)
(* CO2 factors are tabulated in thousandths, so that round(., 2) of a fuel *)
(* or distance value really rounds.  In these units the factor 1_000_000   *)
(* of calculate_cii cancels: (f/1000 * cf/1000) / (1000 c * d/1000) * 10^6 *)
(* = f * cf / (c * d).                                                     *)
(***************************************************************************)
EXTENDS Integers, Sequences, FiniteSets, TLC

VARIABLES
    pc,         \* "idle": no call in progress; "done": optimize_cii has returned
    request,    \* the arguments of the optimize_cii call, or None
    search,     \* the differential_evolution call of this request, or None
    result,     \* the dict optimize_cii returned, or None
    np_random,  \* numpy's process-wide generator (used only by an unseeded search)
    observed,   \* an earlier call kept by the caller for comparison, or None
    call        \* a direct call of one of the optimizer's methods, or None

vars == <<pc, request, search, result, np_random, observed, call>>

\* no dict, no call
None == <<>>

\* the target rating of a request that names none (Python's None, JSON's null)
NoTarget == "None"

----------------------------------------------------------------------------
(* Bounds of the model. *)

\* annualFuelConsumption ranges over 0 .. MaxFuel thousandths of a tonne
MaxFuel == 6
\* distanceTraveled ranges over 1 .. MaxDistance thousandths of a mile
MaxDistance == 5
\* attained CII samples of the direct calls: 0 .. MaxAttained fiftieths
MaxAttained == 65
\* required CII samples of the direct calls: 1 .. MaxRequired fiftieths
MaxRequired == 50
\* states of the process-wide generator
RngStates == 2

----------------------------------------------------------------------------
(* Exact arithmetic standing for the program's float arithmetic. *)

Abs(i) == IF i < 0 THEN -i ELSE i

RECURSIVE GCD(_, _)
GCD(a, b) == IF b = 0 THEN a ELSE GCD(b, a % b)

Inf == <<1, 0>>

\* the fraction n/d in lowest terms, d > 0
Rat(n, d) ==
    LET g == GCD(Abs(n), d)
    IN  <<n \div g, d \div g>>

Whole(i) == <<i, 1>>

Zero == Whole(0)

IsInf(a) == a[2] = 0

\* a * b (no operand is negative when the other is inf)
Mul(a, b) ==
    IF IsInf(a) \/ IsInf(b) THEN Inf
    ELSE LET g1 == GCD(Abs(a[1]), b[2])
             g2 == GCD(Abs(b[1]), a[2])
         IN  <<(a[1] \div g1) * (b[1] \div g2), (a[2] \div g2) * (b[2] \div g1)>>

\* a / b for b > 0
Div(a, b) ==
    IF IsInf(a) THEN Inf ELSE Mul(a, <<b[2], b[1]>>)

\* a - b for finite b
Sub(a, b) ==
    IF IsInf(a) THEN Inf
    ELSE LET l == (a[2] \div GCD(a[2], b[2])) * b[2]
         IN  Rat(a[1] * (l \div a[2]) - b[1] * (l \div b[2]), l)

\* a + b
Add(a, b) ==
    IF IsInf(a) \/ IsInf(b) THEN Inf
    ELSE Sub(a, <<-b[1], b[2]>>)

\* a < b on finite fractions, by their continued fractions (no cross products)
RECURSIVE FracLess(_, _)
FracLess(a, b) ==
    LET fa == a[1] \div a[2]
        fb == b[1] \div b[2]
        ra == a[1] % a[2]
        rb == b[1] % b[2]
    IN  IF fa # fb THEN fa < fb
        ELSE IF rb = 0 THEN FALSE
        ELSE IF ra = 0 THEN TRUE
        ELSE FracLess(<<b[2], rb>>, <<a[2], ra>>)

Less(a, b) ==
    IF IsInf(a) THEN FALSE
    ELSE IF IsInf(b) THEN TRUE
    ELSE FracLess(a, b)

Leq(a, b) == ~Less(b, a)

AbsRat(a) == <<Abs(a[1]), a[2]>>

\* max(0, a)
Max0(a) == IF Less(a, Zero) THEN Zero ELSE a

\* Python's round(a, ndigits) for units = 10^ndigits: to the nearest multiple of
\* 1/units, an exact half to the even neighbour
Round(a, units) ==
    IF IsInf(a) THEN Inf
    ELSE LET whole == a[1] \div a[2]
             part  == (a[1] % a[2]) * units
             q     == whole * units + part \div a[2]
             rem   == part % a[2]
             up    == \/ 2 * rem > a[2]
                      \/ 2 * rem = a[2] /\ q % 2 = 1
         IN  Rat(IF up THEN q + 1 ELSE q, units)

Round2(a) == Round(a, 100)

Round1(a) == Round(a, 10)

\* a fuel or distance value (thousandths) as a number of tonnes or miles
Milli(i) == Rat(i, 1000)

\* what a float division by zero leaves in place of a value
ZeroDivisionError == <<0, 0>>

\* n / d on integers
PyDiv(n, d) == IF d = 0 THEN ZeroDivisionError ELSE Rat(n, d)

----------------------------------------------------------------------------
(* The constant tables of MaritimeOptimizer. *)

\* tonnes CO2 per tonne fuel, in thousandths
CO2_FACTORS ==
    [HFO |-> 3114, MDO |-> 3206, MGO |-> 3206, LNG |-> 2750,
     Methanol |-> 1375, Ammonia |-> 0, LPG |-> 3000]

\* CO2_FACTORS.get(fuel_type, 3.114)
CO2Factor(fuel_type) ==
    IF fuel_type \in DOMAIN CO2_FACTORS THEN CO2_FACTORS[fuel_type] ELSE 3114

\* the (a, c) parameters, both in thousandths
CII_BASELINES ==
    ("Bulk Carrier" :> [a |-> 4745000, c |-> 622]) @@
    ("Oil Tanker" :> [a |-> 5247000, c |-> 610]) @@
    ("Container Ship" :> [a |-> 1984000, c |-> 489]) @@
    ("LNG Carrier" :> [a |-> 9827, c |-> 0]) @@
    ("General Cargo" :> [a |-> 31948000, c |-> 792])

\* the required reduction by year, in hundredths
CII_REDUCTION_FACTORS ==
    [y \in 2023..2040 |->
        <<5, 7, 9, 11, 13, 15, 17, 19, 21, 23, 25, 27, 29, 31, 33, 35, 37, 39>>[y - 2022]]

\* capacity ** -c.  Only the exponent 0 has an exact value; the ships of the
\* model are LNG carriers, the one baseline with c = 0.
Power(capacity, c) == CASE c = 0 -> Whole(1)

----------------------------------------------------------------------------
(* The rating model. *)

calculate_cii_unguarded(fuel_consumption, distance, capacity, fuel_type) ==
    PyDiv(fuel_consumption * CO2Factor(fuel_type), capacity * distance)

calculate_cii(fuel_consumption, distance, capacity, fuel_type) ==
    LET cf == CO2Factor(fuel_type)
        co2_emissions == fuel_consumption * cf
        transport_work == capacity * distance
    IN  IF transport_work = 0 THEN Inf
        ELSE PyDiv(co2_emissions, transport_work)

calculate_required_cii(ship_type, capacity, year) ==
    LET baseline == IF ship_type \in DOMAIN CII_BASELINES
                    THEN CII_BASELINES[ship_type]
                    ELSE CII_BASELINES["Bulk Carrier"]
        base_cii == Mul(Rat(baseline.a, 1000), Power(capacity, baseline.c))
        reduction == IF year \in DOMAIN CII_REDUCTION_FACTORS
                     THEN CII_REDUCTION_FACTORS[year] ELSE 9
    IN  Mul(base_cii, Rat(100 - reduction, 100))

get_cii_rating_strict(attained_cii, required_cii) ==
    LET ratio == Div(attained_cii, required_cii)
    IN  IF Less(ratio, Rat(88, 100)) THEN "A"
        ELSE IF Less(ratio, Rat(94, 100)) THEN "B"
        ELSE IF Less(ratio, Rat(106, 100)) THEN "C"
        ELSE IF Less(ratio, Rat(118, 100)) THEN "D"
        ELSE "E"

get_cii_rating(attained_cii, required_cii) ==
    LET ratio == Div(attained_cii, required_cii)
    IN  IF Leq(ratio, Rat(88, 100)) THEN "A"
        ELSE IF Leq(ratio, Rat(94, 100)) THEN "B"
        ELSE IF Leq(ratio, Rat(106, 100)) THEN "C"
        ELSE IF Leq(ratio, Rat(118, 100)) THEN "D"
        ELSE "E"

get_target_cii_for_rating_lenient(required_cii, target_rating) ==
    LET thresholds == [A |-> 88, B |-> 94, C |-> 106, D |-> 118]
    IN  IF target_rating \notin DOMAIN thresholds
        THEN Mul(required_cii, Rat(118, 100))
        ELSE Mul(required_cii, Rat(thresholds[target_rating], 100))

rating_thresholds == [A |-> 88, B |-> 94, C |-> 106, D |-> 118]

get_target_cii_for_rating(required_cii, target_rating) ==
    IF target_rating \notin DOMAIN rating_thresholds
    THEN Mul(required_cii, Rat(88, 100))
    ELSE Mul(required_cii, Rat(rating_thresholds[target_rating], 100))

----------------------------------------------------------------------------
(* optimize_cii: the values it computes before the search. *)

\* round(v, 2) of a fuel or distance value, in thousandths again
round2_milli(v) ==
    LET r == Round2(Milli(v))
    IN  (r[1] * 1000) \div r[2]

current_cii_of(current_params, ship_info) ==
    calculate_cii(current_params.annualFuelConsumption,
                  current_params.distanceTraveled,
                  ship_info.capacity, current_params.fuelType)

required_cii_of(ship_info) ==
    calculate_required_cii(ship_info.shipType, ship_info.capacity, ship_info.year)

current_rating_of(current_params, ship_info) ==
    get_cii_rating(current_cii_of(current_params, ship_info),
                   required_cii_of(ship_info))

rating_order == <<"E", "D", "C", "B", "A">>

\* rating_order.index(rating), counted from 1
rating_index(rating) == CHOOSE i \in 1..5 : rating_order[i] = rating

\* the target rating after "if target_rating is None: ..."
resolve_target(target_rating, current_rating) ==
    IF target_rating = NoTarget
    THEN LET current_idx == rating_index(current_rating)
         IN  rating_order[IF current_idx + 1 < 5 THEN current_idx + 1 ELSE 5]
    ELSE target_rating

already_optimal_rounded(current_params, ship_info) ==
    LET current_cii == current_cii_of(current_params, ship_info)
        required_cii == required_cii_of(ship_info)
    IN  [success |-> TRUE,
         message |-> "Already at optimal A rating",
         currentRating |-> current_rating_of(current_params, ship_info),
         targetRating |-> "A",
         currentCII |-> Round2(current_cii),
         targetCII |-> Round2(Mul(required_cii, Rat(88, 100))),
         recommendations |-> <<>>,
         optimizedParams |->
            [annualFuelConsumption |-> round2_milli(current_params.annualFuelConsumption),
             distanceTraveled |-> round2_milli(current_params.distanceTraveled),
             fuelType |-> current_params.fuelType]]

\* the dict returned when the current rating is A
already_optimal(current_params, ship_info) ==
    LET current_cii == current_cii_of(current_params, ship_info)
        required_cii == required_cii_of(ship_info)
    IN  [success |-> TRUE,
         message |-> "Already at optimal A rating",
         currentRating |-> current_rating_of(current_params, ship_info),
         targetRating |-> "A",
         currentCII |-> Round2(current_cii),
         targetCII |-> Round2(Mul(required_cii, Rat(88, 100))),
         recommendations |-> <<>>,
         optimizedParams |-> current_params]

----------------------------------------------------------------------------
(* optimize_cii: the search. *)

\* the optimization bounds, in tonnes and miles
bounds(current_params) ==
    [fuel_min |-> Mul(Milli(current_params.annualFuelConsumption), Rat(7, 10)),
     fuel_max |-> Mul(Milli(current_params.annualFuelConsumption), Rat(10, 10)),
     dist_min |-> Mul(Milli(current_params.distanceTraveled), Rat(8, 10)),
     dist_max |-> Mul(Milli(current_params.distanceTraveled), Rat(12, 10))]

\* the points <<fuel, distance>> of the thousandths grid inside the bounds
BoxPoints(b) ==
    LET top_fuel == (b.fuel_max[1] * 1000) \div b.fuel_max[2]
        top_dist == (b.dist_max[1] * 1000) \div b.dist_max[2]
    IN  {f \in 0..top_fuel : Leq(b.fuel_min, Milli(f)) /\ Leq(Milli(f), b.fuel_max)}
        \X
        {d \in 0..top_dist : Leq(b.dist_min, Milli(d)) /\ Leq(Milli(d), b.dist_max)}

objective_penalty_only(x, capacity, fuel_type, target_cii) ==
    LET cii == calculate_cii(x[1], x[2], capacity, fuel_type)
    IN  Mul(Max0(Sub(cii, target_cii)), Whole(100))

\* objective(x) of the search, for the capacity, fuel type and target CII it closes over
objective(x, capacity, fuel_type, target_cii) ==
    LET cii == calculate_cii(x[1], x[2], capacity, fuel_type)
        penalty == Mul(Max0(Sub(cii, target_cii)), Whole(100))
    IN  Add(cii, penalty)

\* the seed argument of the search: <<s>> for an integer s, <<>> for None
seed_None == <<>>

seed == <<42>>

\* the generator the search draws from: a fresh one made from an integer seed,
\* or the process-wide one in its current state
random_state == IF seed = <<>> THEN <<"global", np_random>> ELSE <<"seeded", seed[1]>>

\* the arguments that decide a differential_evolution call
search_args(current_params, ship_info, target_cii) ==
    [func |-> [capacity |-> ship_info.capacity,
               fuel_type |-> current_params.fuelType,
               target_cii |-> target_cii],
     bounds |-> bounds(current_params),
     maxiter |-> 100,
     atol |-> Rat(1, 100),
     tol |-> Rat(1, 100),
     rng |-> random_state]

\* The OptimizeResults differential_evolution can return for args.  The search
\* is a function of its arguments and of the state of its generator, with its
\* result inside the bounds; which point it is, and whether it reports
\* success, is left open.  earlier is a call already made, or None.
differential_evolution(args, earlier) ==
    IF earlier # None /\ earlier.args = args
    THEN {[x |-> earlier.x, success |-> earlier.success]}
    ELSE [x : BoxPoints(args.bounds), success : BOOLEAN]

----------------------------------------------------------------------------
(* optimize_cii: the recommendations and the result of the search path. *)

\* ord() of a rating letter: Python compares the ratings as strings
ord == [A |-> 65, B |-> 66, C |-> 67, D |-> 68, E |-> 69]

StrLess(a, b) == ord[a] < ord[b]

\* ((a - b) / c) * 100 on fuel or distance values
pct_change(a, b, c) ==
    Mul(Div(Sub(Milli(a), Milli(b)), Milli(c)), Whole(100))

fuel_reduction_item_from_1pct(current_params, x) ==
    LET current_fuel == current_params.annualFuelConsumption
        fuel_reduction_pct == pct_change(current_fuel, x[1], current_fuel)
    IN  IF Leq(Whole(1), fuel_reduction_pct)
        THEN <<[type |-> "fuel_reduction",
                title |-> "Reduce Fuel Consumption",
                description |-> <<"Reduce annual fuel consumption by ",
                                  Round1(fuel_reduction_pct), "%">>,
                from |-> round2_milli(current_fuel),
                to |-> round2_milli(x[1]),
                unit |-> "tonnes",
                impact |-> "high",
                suggestions |-> <<"Optimize speed (slow steaming)",
                                  "Improve hull maintenance and cleaning",
                                  "Optimize trim and ballast",
                                  "Use weather routing systems">>]>>
        ELSE <<>>

fuel_reduction_item(current_params, x) ==
    LET current_fuel == current_params.annualFuelConsumption
        fuel_reduction_pct == pct_change(current_fuel, x[1], current_fuel)
    IN  IF Less(Whole(1), fuel_reduction_pct)
        THEN <<[type |-> "fuel_reduction",
                title |-> "Reduce Fuel Consumption",
                description |-> <<"Reduce annual fuel consumption by ",
                                  Round1(fuel_reduction_pct), "%">>,
                from |-> round2_milli(current_fuel),
                to |-> round2_milli(x[1]),
                unit |-> "tonnes",
                impact |-> "high",
                suggestions |-> <<"Optimize speed (slow steaming)",
                                  "Improve hull maintenance and cleaning",
                                  "Optimize trim and ballast",
                                  "Use weather routing systems">>]>>
        ELSE <<>>

distance_item(current_params, x) ==
    LET current_dist == current_params.distanceTraveled
        distance_change_pct == pct_change(x[2], current_dist, current_dist)
    IN  IF Less(Whole(1), AbsRat(distance_change_pct))
        THEN IF Less(Zero, distance_change_pct)
             THEN <<[type |-> "distance_increase",
                     title |-> "Optimize Route Efficiency",
                     description |-> <<"Increase operational distance by ",
                                       Round1(distance_change_pct),
                                       "% while maintaining fuel efficiency">>,
                     from |-> round2_milli(current_dist),
                     to |-> round2_milli(x[2]),
                     unit |-> "nautical miles",
                     impact |-> "medium",
                     suggestions |-> <<"Optimize cargo capacity utilization",
                                       "Reduce ballast voyages",
                                       "Improve route planning">>]>>
             ELSE <<[type |-> "distance_reduction",
                     title |-> "Reduce Unnecessary Distance",
                     description |-> <<"Reduce travel distance by ",
                                       Round1(AbsRat(distance_change_pct)), "%">>,
                     from |-> round2_milli(current_dist),
                     to |-> round2_milli(x[2]),
                     unit |-> "nautical miles",
                     impact |-> "medium",
                     suggestions |-> <<"Optimize port selection",
                                       "Improve route planning",
                                       "Reduce waiting times">>]>>
        ELSE <<>>

alternative_fuel_vs_optimized(fuel_type, x, capacity, required_cii, current_cii, current_rating, target_rating, optimized_cii) ==
    LET alt_cii == calculate_cii(x[1], x[2], capacity, fuel_type)
        alt_rating == get_cii_rating(alt_cii, required_cii)
        optimized_rating == get_cii_rating(optimized_cii, required_cii)
    IN  IF \/ StrLess(alt_rating, optimized_rating)
           \/ alt_rating = target_rating /\ Less(alt_cii, optimized_cii)
        THEN <<[fuel |-> fuel_type,
                cii |-> Round2(alt_cii),
                rating |-> alt_rating,
                improvement |->
                    Round1(Mul(Div(Sub(current_cii, alt_cii), current_cii), Whole(100)))]>>
        ELSE <<>>

\* the entry of one candidate fuel in alternative_fuels, or nothing
alternative_fuel(fuel_type, x, capacity, required_cii, current_cii, current_rating, target_rating, optimized_cii) ==
    LET alt_cii == calculate_cii(x[1], x[2], capacity, fuel_type)
        alt_rating == get_cii_rating(alt_cii, required_cii)
    IN  IF \/ StrLess(alt_rating, current_rating)
           \/ alt_rating = target_rating /\ Less(alt_cii, optimized_cii)
        THEN <<[fuel |-> fuel_type,
                cii |-> Round2(alt_cii),
                rating |-> alt_rating,
                improvement |->
                    Round1(Mul(Div(Sub(current_cii, alt_cii), current_cii), Whole(100)))]>>
        ELSE <<>>

fuel_switching_item(current_params, ship_info, target_rating, x) ==
    LET current_cii == current_cii_of(current_params, ship_info)
        required_cii == required_cii_of(ship_info)
        current_rating == get_cii_rating(current_cii, required_cii)
        optimized_cii == calculate_cii(x[1], x[2], ship_info.capacity,
                                       current_params.fuelType)
        alt(fuel_type) == alternative_fuel(fuel_type, x, ship_info.capacity,
                                           required_cii, current_cii, current_rating,
                                           target_rating, optimized_cii)
        alternative_fuels == alt("LNG") \o alt("Methanol")
    IN  IF current_params.fuelType \in {"HFO", "MDO", "MGO"} /\ alternative_fuels # <<>>
        THEN <<[type |-> "fuel_switching",
                title |-> "Consider Alternative Fuels",
                description |->
                    <<"Switching to cleaner fuels can significantly improve CII rating">>,
                impact |-> "high",
                alternatives |-> alternative_fuels,
                suggestions |-> <<"Evaluate LNG conversion feasibility",
                                  "Consider dual-fuel engines for new builds",
                                  "Assess methanol availability at ports">>]>>
        ELSE <<>>

\* the dict returned after the search; target_rating is the resolved target,
\* de the OptimizeResult of the search
search_result(current_params, ship_info, target_rating, de) ==
    LET current_cii == current_cii_of(current_params, ship_info)
        required_cii == required_cii_of(ship_info)
        current_rating == get_cii_rating(current_cii, required_cii)
        target_cii == get_target_cii_for_rating(required_cii, target_rating)
        optimized_cii == calculate_cii(de.x[1], de.x[2], ship_info.capacity,
                                       current_params.fuelType)
        optimized_rating == get_cii_rating(optimized_cii, required_cii)
    IN  [success |-> de.success,
         currentRating |-> current_rating,
         targetRating |-> target_rating,
         achievedRating |-> optimized_rating,
         currentCII |-> Round2(current_cii),
         targetCII |-> Round2(target_cii),
         optimizedCII |-> Round2(optimized_cii),
         requiredCII |-> Round2(required_cii),
         improvement |->
            Round1(Mul(Div(Sub(current_cii, optimized_cii), current_cii), Whole(100))),
         recommendations |->
            fuel_reduction_item(current_params, de.x)
            \o distance_item(current_params, de.x)
            \o fuel_switching_item(current_params, ship_info, target_rating, de.x),
         optimizedParams |->
            [annualFuelConsumption |-> round2_milli(de.x[1]),
             distanceTraveled |-> round2_milli(de.x[2]),
             fuelType |-> current_params.fuelType]]

----------------------------------------------------------------------------
(* The requests of the model. *)

FuelTypes == {"HFO", "MGO", "LNG", "Ammonia", "Biofuel"}

ShipInfos ==
    [shipType : {"LNG Carrier"}, capacity : {300, 350, 380}, year : {2023, 2025}]

TargetRatings == {NoTarget, "A", "B", "C", "D", "E"}

\* small amounts, where rounding to 2 decimals moves the values
SmallRequests ==
    [currentParams : [annualFuelConsumption : 0..MaxFuel,
                      distanceTraveled : 1..MaxDistance,
                      fuelType : FuelTypes],
     shipInfo : ShipInfos,
     targetRating : TargetRatings]

\* amounts of 100 thousandths, where one step of the grid is a change of 1%
PercentRequests ==
    [currentParams : [annualFuelConsumption : {100},
                      distanceTraveled : {100},
                      fuelType : {"HFO"}],
     shipInfo : [shipType : {"LNG Carrier"}, capacity : {350}, year : {2025}],
     targetRating : {NoTarget, "A"}]

Requests == SmallRequests \cup PercentRequests

\* the requests a caller repeats to compare the answers
RepeatedRequests ==
    [currentParams : [annualFuelConsumption : {0, 5},
                      distanceTraveled : {5},
                      fuelType : {"HFO", "MGO", "LNG"}],
     shipInfo : [shipType : {"LNG Carrier"}, capacity : {350}, year : {2025}],
     targetRating : {NoTarget, "A", "E"}]

----------------------------------------------------------------------------
(* The calls of optimize_cii. *)

Init ==
    /\ pc = "idle"
    /\ request = None
    /\ search = None
    /\ result = None
    /\ np_random = 0
    /\ observed = None
    /\ call = None

\* optimize_cii(req) when the current rating is A: no search
OptimizeAlreadyOptimal(req) ==
    /\ pc = "idle"
    /\ current_rating_of(req.currentParams, req.shipInfo) = "A"
    /\ pc' = "done"
    /\ request' = req
    /\ search' = None
    /\ result' = already_optimal(req.currentParams, req.shipInfo)
    /\ UNCHANGED <<np_random, observed, call>>

\* optimize_cii(req) otherwise: the search, then the recommendations
OptimizeSearch(req) ==
    LET current_params == req.currentParams
        ship_info == req.shipInfo
        current_rating == current_rating_of(current_params, ship_info)
        target_rating == resolve_target(req.targetRating, current_rating)
        target_cii == get_target_cii_for_rating(required_cii_of(ship_info), target_rating)
        args == search_args(current_params, ship_info, target_cii)
        earlier == IF observed = None THEN None ELSE observed.search
    IN  /\ pc = "idle"
        /\ current_rating # "A"
        /\ \E de \in differential_evolution(args, earlier) :
              /\ search' = [args |-> args, x |-> de.x, success |-> de.success]
              /\ result' = search_result(current_params, ship_info, target_rating, de)
        /\ pc' = "done"
        /\ request' = req
        /\ np_random' = IF seed = <<>> THEN (np_random + 1) % RngStates ELSE np_random
        /\ UNCHANGED <<observed, call>>

\* the caller takes the response and keeps nothing of it
Return ==
    /\ pc = "done"
    /\ pc' = "idle"
    /\ request' = None
    /\ search' = None
    /\ result' = None
    /\ UNCHANGED <<np_random, observed, call>>

\* the caller takes the response and keeps it to compare a later one with it
ReturnAndKeep ==
    /\ pc = "done"
    /\ pc' = "idle"
    /\ observed' = [request |-> request, search |-> search, result |-> result]
    /\ request' = None
    /\ search' = None
    /\ result' = None
    /\ UNCHANGED <<np_random, call>>

Next ==
    \/ \E req \in Requests : OptimizeAlreadyOptimal(req)
    \/ \E req \in Requests : OptimizeSearch(req)
    \/ Return

Spec == Init /\ [][Next]_vars

NextRepeat ==
    \/ \E req \in RepeatedRequests : OptimizeAlreadyOptimal(req)
    \/ \E req \in RepeatedRequests : OptimizeSearch(req)
    \/ Return
    \/ ReturnAndKeep

SpecRepeat == Init /\ [][NextRepeat]_vars

----------------------------------------------------------------------------
(* Direct calls of the optimizer's methods, and of the search objective. *)

AttainedSamples == {Rat(n, 50) : n \in 0..MaxAttained} \cup {Inf}

RequiredSamples == {Rat(m, 50) : m \in 1..MaxRequired}

RatingLetters == {"A", "B", "C", "D", "E"}

CallCalculateCII(fuel_consumption, distance, capacity, fuel_type) ==
    /\ call = None
    /\ call' = [method |-> "calculate_cii",
                args |-> <<fuel_consumption, distance, capacity, fuel_type>>,
                returned |-> calculate_cii(fuel_consumption, distance, capacity, fuel_type)]
    /\ UNCHANGED <<pc, request, search, result, np_random, observed>>

CallGetCIIRating(attained_cii, required_cii) ==
    /\ call = None
    /\ call' = [method |-> "get_cii_rating",
                args |-> <<attained_cii, required_cii>>,
                returned |-> get_cii_rating(attained_cii, required_cii)]
    /\ UNCHANGED <<pc, request, search, result, np_random, observed>>

CallGetTargetCII(required_cii, target_rating) ==
    /\ call = None
    /\ call' = [method |-> "get_target_cii_for_rating",
                args |-> <<required_cii, target_rating>>,
                returned |-> get_target_cii_for_rating(required_cii, target_rating)]
    /\ UNCHANGED <<pc, request, search, result, np_random, observed>>

\* the objective of a request with the given required CII and a current rating
\* other than A, evaluated at every grid point of its bounds, once for each
\* target rating
EvaluateObjective(current_params, capacity, required_cii) ==
    /\ call = None
    /\ get_cii_rating(calculate_cii(current_params.annualFuelConsumption,
                                    current_params.distanceTraveled,
                                    capacity, current_params.fuelType),
                      required_cii) # "A"
    /\ call' = [method |-> "objective",
                args |-> <<current_params, capacity, required_cii>>,
                returned |->
                    [t \in RatingLetters |->
                        [x \in BoxPoints(bounds(current_params)) |->
                            objective(x, capacity, current_params.fuelType,
                                      get_target_cii_for_rating(required_cii, t))]]]
    /\ UNCHANGED <<pc, request, search, result, np_random, observed>>

CallReturn ==
    /\ call # None
    /\ call' = None
    /\ UNCHANGED <<pc, request, search, result, np_random, observed>>

ObjectiveParams ==
    [annualFuelConsumption : (1..MaxFuel) \cup {10, 20},
     distanceTraveled : (1..MaxDistance) \cup {10},
     fuelType : {"HFO", "LNG", "Methanol"}]

\* required CII values of the objective's requests: the tenths up to 1
ObjectiveRequired == {r \in RequiredSamples : r[2] \in {1, 2, 5, 10}}

NextCalls ==
    \/ \E f \in 0..MaxFuel, d \in 0..MaxDistance, c \in {0, 300, 350},
          ft \in FuelTypes \cup {"Methanol"} : CallCalculateCII(f, d, c, ft)
    \/ \E a \in AttainedSamples, r \in RequiredSamples : CallGetCIIRating(a, r)
    \/ \E r \in RequiredSamples, t \in RatingLetters \cup {"F", NoTarget} :
          CallGetTargetCII(r, t)
    \/ \E cp \in ObjectiveParams, r \in ObjectiveRequired :
          EvaluateObjective(cp, 3500, r)
    \/ CallReturn

SpecCalls == Init /\ [][NextCalls]_vars

----------------------------------------------------------------------------
(* Properties. *)

\* the call of optimize_cii in progress took the search path
Searched == pc = "done" /\ search # None

\* the call of optimize_cii in progress returned without searching
ShortCircuited == pc = "done" /\ search = None

\* the band one better than a rating, the best band staying
OneBetter(rating) ==
    CASE rating = "E" -> "D"
      [] rating = "D" -> "C"
      [] rating = "C" -> "B"
      [] rating = "B" -> "A"
      [] rating = "A" -> "A"

\* the upper-bound ratio of a band in hundredths, the A ratio for any other letter
BandRatio(rating) ==
    CASE rating = "A" -> 88
      [] rating = "B" -> 94
      [] rating = "C" -> 106
      [] rating = "D" -> 118
      [] OTHER -> 88

\* position of a band, best first
BandRank(rating) ==
    CASE rating = "A" -> 1
      [] rating = "B" -> 2
      [] rating = "C" -> 3
      [] rating = "D" -> 4
      [] rating = "E" -> 5

\* C1: on the search path the returned optimizedParams keep the fuel within
\* [0.7 x original, original] and the distance within [0.8 x original,
\* 1.2 x original], after rounding to 2 decimals, whatever point inside the
\* bounds the search returned.
C1_RoundedParamsWithinBounds ==
    Searched =>
        LET fuel0 == request.currentParams.annualFuelConsumption
            dist0 == request.currentParams.distanceTraveled
            fuel  == result.optimizedParams.annualFuelConsumption
            dist  == result.optimizedParams.distanceTraveled
        IN  /\ fuel <= fuel0
            /\ 10 * fuel >= 7 * fuel0
            /\ 10 * dist >= 8 * dist0
            /\ 10 * dist <= 12 * dist0

\* C2: when the current rating is A, whatever target was supplied, no search is
\* run, optimizedParams is the input currentParams unchanged and unrounded,
\* recommendations is empty and targetCII is 0.88 x requiredCII (2 decimals).
C2_AlreadyOptimalIsIdentity ==
    (pc = "done" /\ result.currentRating = "A") =>
        /\ search = None
        /\ result.optimizedParams = request.currentParams
        /\ result.recommendations = <<>>
        /\ result.targetRating = "A"
        /\ result.targetCII = Round2(Mul(required_cii_of(request.shipInfo), Rat(88, 100)))

\* an A-rated request naming the target D, its amounts not multiples of 0.01
C2_Witness ==
    /\ ShortCircuited
    /\ request.targetRating = "D"
    /\ request.currentParams.annualFuelConsumption = 4
    /\ request.currentParams.distanceTraveled = 5
    /\ result.optimizedParams.annualFuelConsumption = 4

\* C3: a call of optimize_cii with the arguments of an earlier call returns the
\* result of the earlier call, in every field.
C3_Deterministic ==
    (pc = "done" /\ observed # None /\ observed.request = request) =>
        result = observed.result

\* a request answered by a search, made a second time
C3_Witness ==
    /\ Searched
    /\ observed # None
    /\ observed.request = request
    /\ Len(result.recommendations) > 0

\* C4: get_cii_rating returns the band of ratio = attained/required with
\* upper-inclusive boundaries 0.88, 0.94, 1.06, 1.18; rating(x, x) = C; and a
\* larger ratio never gets a better rating.
C4_RatingBands ==
    (call # None /\ call.method = "get_cii_rating") =>
        LET attained == call.args[1]
            required == call.args[2]
            \* ratio <= h/100, on the numerators and denominators
            AtMost(h) == /\ ~IsInf(attained)
                         /\ 100 * attained[1] * required[2] <= h * required[1] * attained[2]
        IN  /\ call.returned \in RatingLetters
            /\ call.returned = "A" <=> AtMost(88)
            /\ call.returned = "B" <=> ~AtMost(88) /\ AtMost(94)
            /\ call.returned = "C" <=> ~AtMost(94) /\ AtMost(106)
            /\ call.returned = "D" <=> ~AtMost(106) /\ AtMost(118)
            /\ call.returned = "E" <=> ~AtMost(118)
            /\ attained = required => call.returned = "C"
            /\ \A worse \in AttainedSamples :
                  Leq(attained, worse) =>
                      BandRank(get_cii_rating(worse, required)) >= BandRank(call.returned)

\* a ratio of exactly 0.88 rated A
C4_Witness ==
    /\ call # None
    /\ call.method = "get_cii_rating"
    /\ call.args = <<Rat(22, 50), Rat(25, 50)>>
    /\ call.returned = "A"

\* C5: every result with success = true has all the fields of the documented
\* success response.
C5_SuccessHasAllFields ==
    (pc = "done" /\ result.success) =>
        {"currentRating", "targetRating", "achievedRating", "currentCII", "targetCII",
         "optimizedCII", "requiredCII", "improvement", "recommendations",
         "optimizedParams"} \subseteq DOMAIN result

\* C6: calculate_cii never raises, returns +infinity whenever capacity x
\* distance = 0, for every fuel amount and fuel type, and +infinity is rated E
\* against every required CII.
C6_ZeroWorkIsInfinity ==
    /\ (call # None /\ call.method = "calculate_cii") =>
          /\ call.returned # ZeroDivisionError
          /\ call.args[3] * call.args[2] = 0 => call.returned = Inf
    /\ (call # None /\ call.method = "get_cii_rating" /\ call.args[1] = Inf) =>
          call.returned = "E"

\* no fuel of factor 0 over no distance
C6_Witness ==
    /\ call # None
    /\ call.method = "calculate_cii"
    /\ call.args = <<0, 0, 350, "Ammonia">>
    /\ call.returned = Inf

\* the types of the recommendations of the result, in their order
RecommendationTypes ==
    [i \in 1..Len(result.recommendations) |-> result.recommendations[i].type]

\* C7: on the search path a fuel_switching item is present iff the current fuel
\* is HFO, MDO or MGO and a candidate among LNG, Methanol qualifies; it is
\* then the only one and lists exactly the qualifying candidates, each
\* evaluated at the optimized point.  A candidate qualifies iff its rating is
\* strictly better than the current rating, or equals the resolved target
\* rating with a CII below the optimized CII.
C7_FuelSwitching ==
    Searched =>
        LET cp == request.currentParams
            capacity == request.shipInfo.capacity
            required == required_cii_of(request.shipInfo)
            cii(ft) == calculate_cii(search.x[1], search.x[2], capacity, ft)
            rate(ft) == get_cii_rating(cii(ft), required)
            Qualifies(ft) ==
                \/ BandRank(rate(ft)) < BandRank(result.currentRating)
                \/ rate(ft) = result.targetRating /\ Less(cii(ft), cii(cp.fuelType))
            qualifying == {ft \in {"LNG", "Methanol"} : Qualifies(ft)}
            IsSwitching(r) == r.type = "fuel_switching"
            switching == SelectSeq(result.recommendations, IsSwitching)
        IN  IF cp.fuelType \in {"HFO", "MDO", "MGO"} /\ qualifying # {}
            THEN /\ Len(switching) = 1
                 /\ Len(switching[1].alternatives) = Cardinality(qualifying)
                 /\ {a.fuel : a \in {switching[1].alternatives[i] :
                                        i \in 1..Len(switching[1].alternatives)}} = qualifying
                 /\ \A i \in 1..Len(switching[1].alternatives) :
                       LET a == switching[1].alternatives[i]
                       IN  a.cii = Round2(cii(a.fuel)) /\ a.rating = rate(a.fuel)
            ELSE Len(switching) = 0

\* Methanol qualifies and LNG does not
C7_Witness ==
    /\ Searched
    /\ Len(result.recommendations) > 0
    /\ LET last == result.recommendations[Len(result.recommendations)]
       IN  /\ last.type = "fuel_switching"
           /\ Len(last.alternatives) = 1
           /\ last.alternatives[1].fuel = "Methanol"

\* C8: on the search path fuel_reduction is emitted iff the fuel fell by more
\* than 1%, one distance item iff the distance changed by more than 1%
\* (distance_increase when it rose, distance_reduction when it fell), nothing
\* for a change of exactly 1% or less, in the order fuel_reduction, distance
\* item, fuel_switching.
C8_Recommendations ==
    Searched =>
        LET fuel0 == request.currentParams.annualFuelConsumption
            dist0 == request.currentParams.distanceTraveled
            fuel == search.x[1]
            dist == search.x[2]
            fuel_part == IF 100 * (fuel0 - fuel) > fuel0 THEN <<"fuel_reduction">> ELSE <<>>
            dist_part == IF 100 * (dist - dist0) > dist0 THEN <<"distance_increase">>
                         ELSE IF 100 * (dist0 - dist) > dist0 THEN <<"distance_reduction">>
                         ELSE <<>>
            types == RecommendationTypes
        IN  \/ types = fuel_part \o dist_part
            \/ types = fuel_part \o dist_part \o <<"fuel_switching">>

\* the fuel fell by exactly 1% and the distance rose by exactly 1%: no item for either
C8_Witness ==
    /\ Searched
    /\ request.currentParams.annualFuelConsumption = 100
    /\ request.currentParams.distanceTraveled = 100
    /\ search.x = <<99, 101>>
    /\ \A i \in 1..Len(result.recommendations) :
          result.recommendations[i].type = "fuel_switching"

\* C9: without a supplied target the reported target is the band one better
\* than the current rating (A staying A); a supplied target is reported
\* unchanged on the search path; the target CII the search works against is
\* requiredCII times the upper-bound ratio of the target's band, the A ratio
\* for a letter without a threshold such as E, and the reported targetCII is
\* that product to 2 decimals.
C9_TargetResolution ==
    pc = "done" =>
        /\ request.targetRating = NoTarget =>
              result.targetRating = OneBetter(result.currentRating)
        /\ (request.targetRating # NoTarget /\ search # None) =>
              result.targetRating = request.targetRating
        /\ search # None =>
              search.args.func.target_cii =
                  Mul(required_cii_of(request.shipInfo),
                      Rat(BandRatio(result.targetRating), 100))
        /\ result.targetCII =
              Round2(Mul(required_cii_of(request.shipInfo),
                         Rat(BandRatio(result.targetRating), 100)))

\* an explicit target E on the search path, given the A threshold
C9_Witness ==
    /\ Searched
    /\ request.targetRating = "E"
    /\ result.targetRating = "E"
    /\ result.targetCII = Round2(Mul(required_cii_of(request.shipInfo), Rat(88, 100)))
    /\ result.targetCII # Round2(Mul(required_cii_of(request.shipInfo), Rat(118, 100)))

\* the grid points of the bounds where the evaluated objective is least
ArgMin(energies) ==
    {x \in DOMAIN energies : \A y \in DOMAIN energies : ~Less(energies[y], energies[x])}

\* C10: the objective orders the points of the bounds as the attained CII
\* does, for every target; so its minimizers are the same for every target
\* rating, are the corner (0.7 x fuel, 1.2 x distance), and their CII is at
\* most the current CII.
C10_ObjectiveFollowsCII ==
    (call # None /\ call.method = "objective") =>
        LET cp == call.args[1]
            capacity == call.args[2]
            cf == CO2Factor(cp.fuelType)
            energies == call.returned
            points == BoxPoints(bounds(cp))
            \* cii(x) < cii(y), on the integers
            CIILess(x, y) == cf * x[1] * y[2] < cf * y[1] * x[2]
            corner == <<(7 * cp.annualFuelConsumption) \div 10,
                        (12 * cp.distanceTraveled) \div 10>>
            corner_on_grid == /\ (7 * cp.annualFuelConsumption) % 10 = 0
                              /\ (12 * cp.distanceTraveled) % 10 = 0
        IN  /\ \A t \in RatingLetters : \A x, y \in points :
                  Less(energies[t][x], energies[t][y]) <=> CIILess(x, y)
            /\ \A t1, t2 \in RatingLetters : ArgMin(energies[t1]) = ArgMin(energies[t2])
            /\ corner_on_grid =>
                  \A t \in RatingLetters : ArgMin(energies[t]) = {corner}
            /\ \A t \in RatingLetters : \A x \in ArgMin(energies[t]) :
                  Leq(calculate_cii(x[1], x[2], capacity, cp.fuelType),
                      calculate_cii(cp.annualFuelConsumption, cp.distanceTraveled,
                                    capacity, cp.fuelType))

\* a box whose CII values lie on both sides of the target of band C, minimized
\* at the corner for the targets A and E alike
C10_Witness ==
    /\ call # None
    /\ call.method = "objective"
    /\ call.args[1] = [annualFuelConsumption |-> 10, distanceTraveled |-> 10,
                       fuelType |-> "HFO"]
    /\ LET target == get_target_cii_for_rating(call.args[3], "C")
           cii(x) == calculate_cii(x[1], x[2], call.args[2], "HFO")
       IN  /\ Less(cii(<<7, 12>>), target)
           /\ Less(target, cii(<<10, 8>>))
    /\ ArgMin(call.returned["A"]) = {<<7, 12>>}
    /\ ArgMin(call.returned["E"]) = {<<7, 12>>}

====
